---- MODULE Spec2Model ----
(***************************************************************************)
(* Model of the inspector sidecar server (server.js): the template-path    *)
(* validation, the FDF serialisation, and the life cycle of the temporary  *)
(* files around the pdftk subprocess in the /fields and /submit handlers.  *)
(*                                                                         *)
(* Strings are sequences of one-character strings, so that path.normalize, *)
(* String.prototype.includes / startsWith and the FDF escaping are         *)
(* computed character by character, as the code computes them.             *)
(***************************************************************************)
EXTENDS Integers, Sequences, FiniteSets, TLC

VARIABLES
    ORIG_ROOT,   \* the template root (server.js line 10), a string
    vtInput,     \* SpecPath: the candidate handed to validateTemplatePath
    vtResult,    \* SpecPath: what validateTemplatePath returned
    vtCalled,    \* SpecPath: whether validateTemplatePath has been called
    fdfFields,   \* SpecFdf: the field map handed to buildFdf, in key order
    fdfLines,    \* SpecFdf: the field lines buildFdf wrote into the document
    fdfDecoded,  \* SpecFdf: the values the fill tool reads back from them
    fdfStage,    \* SpecFdf: "input", "built" or "decoded"
    serverUp,    \* whether the node process is still running
    unlinkCanFail, \* whether fs.unlinkSync may throw in this environment
    clock,       \* Date.now(), in milliseconds
    tmp,         \* os.tmpdir(): path -> 0 (absent) or the invocation whose
                 \* data the file holds
    pc,          \* per request: where its handler stands
    route,       \* per request: "fields" or "submit"
    reqTemplate, \* per request: req.query.template
    resp,        \* per request: the response sent
    io,          \* per request: the file and subprocess operations the
                 \* handler performed, in order
    fdfPath,     \* per fillPdf invocation: its intermediate file
    outPath,     \* per fillPdf invocation: its output file
    proc,        \* per request: its pdftk subprocess
    launchFailed, \* per request: pdftk could not be started
    exitCode,    \* per request: the status pdftk exited with
    fdfSeen,     \* per request: the FDF content pdftk read (0: none)
    outcome,     \* per fillPdf/extractFields call: the promise's state
    writeFailed, \* per fillPdf invocation: writeFileSync threw
    readRes,     \* per fillPdf invocation: what fs.readFile called back with
    cleanups,    \* per fillPdf invocation: calls of cleanup()
    cleanupThrew, \* per fillPdf invocation: an unlinkSync threw in cleanup()
    docId,       \* per /start request: req.query.doc_id
    redirect     \* per /start request: the Location it was redirected to

pathVars == <<vtInput, vtResult, vtCalled>>
fdfVars == <<fdfFields, fdfLines, fdfDecoded, fdfStage>>
srvVars == <<serverUp, unlinkCanFail, clock, tmp, pc, route, reqTemplate, resp, io,
             fdfPath, outPath, proc, launchFailed, exitCode, fdfSeen, outcome,
             writeFailed, readRes, cleanups, cleanupThrew, docId, redirect>>

----------------------------------------------------------------------------
(* Bounds *)

\* longest candidate string handed to validateTemplatePath
MaxLen == 6

\* longest field value handed to buildFdf
MaxValLen == 2

\* most fields in one field map
MaxFields == 2

\* number of requests the server receives
NumReq == 2

\* last value of the millisecond clock
MaxClock == 1

----------------------------------------------------------------------------
(* JavaScript values: a record with a type tag t and, for strings, the     *)
(* characters s.                                                           *)

Str(chars) == [t |-> "string", s |-> chars]
Null == [t |-> "null", s |-> <<>>]
Undefined == [t |-> "undefined", s |-> <<>>]
\* a repeated query parameter (?template=a&template=b) reaches the handler
\* as an array, a bracketed one (?template[x]=a) as an object
ArrayValue == [t |-> "array", s |-> <<>>]
ObjectValue == [t |-> "object", s |-> <<>>]

\* JavaScript truthiness: !v is true for undefined, null and ""
Falsy(v) == v.t \in {"undefined", "null"} \/ (v.t = "string" /\ v.s = <<>>)

SeqsUpTo(A, n) == UNION {[1..k -> A] : k \in 0..n}

----------------------------------------------------------------------------
(* String helpers of the JavaScript runtime *)

\* String.prototype.startsWith
StartsWith(s, p) ==
    /\ Len(p) <= Len(s)
    /\ SubSeq(s, 1, Len(p)) = p

\* String.prototype.includes
Includes(s, p) ==
    \E i \in 1..(Len(s) - Len(p) + 1) : SubSeq(s, i, i + Len(p) - 1) = p

DotDot == <<".", ".">>

----------------------------------------------------------------------------
(* Node's path module, POSIX flavour *)

\* the segments of a string between "/" separators, empty ones included
RECURSIVE SplitFrom(_, _, _)
SplitFrom(s, i, cur) ==
    IF i > Len(s) THEN <<cur>>
    ELSE IF s[i] = "/" THEN <<cur>> \o SplitFrom(s, i + 1, <<>>)
    ELSE SplitFrom(s, i + 1, Append(cur, s[i]))

Split(s) == SplitFrom(s, 1, <<>>)

RECURSIVE JoinSegs(_)
JoinSegs(segs) ==
    IF segs = <<>> THEN <<>>
    ELSE IF Len(segs) = 1 THEN segs[1]
    ELSE segs[1] \o <<"/">> \o JoinSegs(Tail(segs))

\* normalizeString: drops empty and "." segments; ".." removes the segment
\* before it, and is kept only above the start of a relative path
RECURSIVE NormSegs(_, _, _)
NormSegs(segs, res, allowAboveRoot) ==
    IF segs = <<>> THEN res
    ELSE LET seg == Head(segs)
             rest == Tail(segs)
         IN  IF seg = <<>> \/ seg = <<".">>
             THEN NormSegs(rest, res, allowAboveRoot)
             ELSE IF seg = DotDot
             THEN IF res # <<>> /\ res[Len(res)] # DotDot
                  THEN NormSegs(rest, SubSeq(res, 1, Len(res) - 1), allowAboveRoot)
                  ELSE IF allowAboveRoot
                       THEN NormSegs(rest, Append(res, DotDot), allowAboveRoot)
                       ELSE NormSegs(rest, res, allowAboveRoot)
             ELSE NormSegs(rest, Append(res, seg), allowAboveRoot)

normalizeString(p, allowAboveRoot) == JoinSegs(NormSegs(Split(p), <<>>, allowAboveRoot))

pathIsAbsolute_never(p) == FALSE

\* path.isAbsolute
pathIsAbsolute(p) == Len(p) > 0 /\ p[1] = "/"

\* path.normalize
pathNormalize(p) ==
    IF Len(p) = 0 THEN <<".">>
    ELSE LET isAbs == p[1] = "/"
             trailing == p[Len(p)] = "/"
             n == normalizeString(p, ~isAbs)
         IN  IF Len(n) = 0
             THEN (IF isAbs THEN <<"/">> ELSE IF trailing THEN <<".", "/">> ELSE <<".">>)
             ELSE (IF isAbs THEN <<"/">> ELSE <<>>) \o n
                  \o (IF trailing THEN <<"/">> ELSE <<>>)

\* path.join of two arguments
pathJoin(a, b) ==
    IF Len(a) = 0 /\ Len(b) = 0 THEN <<".">>
    ELSE IF Len(a) = 0 THEN pathNormalize(b)
    ELSE IF Len(b) = 0 THEN pathNormalize(a)
    ELSE pathNormalize(a \o <<"/">> \o b)

\* the working directory path.resolve falls back on for a relative argument
Cwd == <<"/">>

\* path.resolve of one argument
pathResolve(p) ==
    LET full == IF pathIsAbsolute(p) THEN p ELSE Cwd \o <<"/">> \o p
    IN  <<"/">> \o normalizeString(full, FALSE)

----------------------------------------------------------------------------
(* validateTemplatePath *)

HasTraversal_never(n) == FALSE

\* line 47: normalizedTemplate.startsWith('..') || normalizedTemplate.includes('..')
HasTraversal(n) == StartsWith(n, DotDot) \/ Includes(n, DotDot)

validateTemplatePath(root, template) ==
    IF Falsy(template) \/ template.t # "string" THEN Null
    ELSE LET normalizedTemplate == pathNormalize(template.s)
             fullPath == pathJoin(root, normalizedTemplate)
             resolvedPath == pathResolve(fullPath)
             resolvedRoot == pathResolve(root)
         IN  IF HasTraversal(normalizedTemplate) THEN Null
             ELSE IF pathIsAbsolute(normalizedTemplate) THEN Null
             ELSE IF ~StartsWith(resolvedPath, resolvedRoot) THEN Null
             ELSE Str(fullPath)

----------------------------------------------------------------------------
(* SpecPath: validateTemplatePath applied to every bounded candidate *)

PathAlphabet == {"a", ".", "/"}

Roots == {<<"/", "a">>, <<"/", "a", "/">>, <<"/", "a", "/", "a">>}

\* the values a caller can hand over: strings of up to n characters and
\* the non-strings
Candidates(n) ==
    {Str(s) : s \in SeqsUpTo(PathAlphabet, n)}
        \cup {Null, Undefined, ArrayValue, ObjectValue}

----------------------------------------------------------------------------
(* The server's state *)

Req == 1..NumReq

NoPath == [kind |-> "none", t |-> 0]
\* line 138: path.join(tmpdir, `data_${Date.now()}.fdf`)
DataPath(now) == [kind |-> "data", t |-> now]
\* line 139: path.join(tmpdir, `out_${Date.now()}.pdf`)
OutFilePath(now) == [kind |-> "out", t |-> now]

TmpPaths == {DataPath(n) : n \in 0..MaxClock} \cup {OutFilePath(n) : n \in 0..MaxClock}

NoError == [prefix |-> "", detail |-> ""]
Pending == [kind |-> "pending", error |-> NoError, buf |-> 0]
Resolved(b) == [kind |-> "resolved", error |-> NoError, buf |-> b]
Rejected(e) == [kind |-> "rejected", error |-> e, buf |-> 0]

NoResponse == [status |-> 0, error |-> NoError, buf |-> 0]

NoRead == [done |-> FALSE, error |-> NoError, buf |-> 0]

SrvIdle ==
    /\ serverUp = TRUE
    /\ clock = 0
    /\ tmp = [q \in TmpPaths |-> 0]
    /\ pc = [i \in Req |-> "idle"]
    /\ route = [i \in Req |-> "none"]
    /\ reqTemplate = [i \in Req |-> Undefined]
    /\ resp = [i \in Req |-> NoResponse]
    /\ io = [i \in Req |-> <<>>]
    /\ fdfPath = [i \in Req |-> NoPath]
    /\ outPath = [i \in Req |-> NoPath]
    /\ proc = [i \in Req |-> "none"]
    /\ launchFailed = [i \in Req |-> FALSE]
    /\ exitCode = [i \in Req |-> 0]
    /\ fdfSeen = [i \in Req |-> 0]
    /\ outcome = [i \in Req |-> Pending]
    /\ writeFailed = [i \in Req |-> FALSE]
    /\ readRes = [i \in Req |-> NoRead]
    /\ cleanups = [i \in Req |-> 0]
    /\ cleanupThrew = [i \in Req |-> FALSE]
    /\ docId = [i \in Req |-> Undefined]
    /\ redirect = [i \in Req |-> <<>>]

FdfIdle ==
    /\ fdfFields = <<>>
    /\ fdfLines = <<>>
    /\ fdfDecoded = <<>>
    /\ fdfStage = "input"

InitPath ==
    /\ FdfIdle
    /\ SrvIdle
    /\ unlinkCanFail = TRUE
    /\ ORIG_ROOT \in Roots
    /\ vtInput \in Candidates(MaxLen)
    /\ vtResult = Null
    /\ vtCalled = FALSE

ValidateCall ==
    /\ ~vtCalled
    /\ vtResult' = validateTemplatePath(ORIG_ROOT, vtInput)
    /\ vtCalled' = TRUE
    /\ UNCHANGED <<ORIG_ROOT, vtInput, fdfVars, srvVars>>

NextPath == ValidateCall

vars == <<ORIG_ROOT, pathVars, fdfVars, srvVars>>

SpecPath == InitPath /\ [][NextPath]_vars

----------------------------------------------------------------------------
(* Properties of validateTemplatePath (SpecPath) *)

\* the directory names of an absolute path after lexical canonicalisation
CanonSegs(p) == NormSegs(Split(p), <<>>, FALSE)

IsSegPrefix(a, b) == Len(a) <= Len(b) /\ SubSeq(b, 1, Len(a)) = a

\* root joined with the candidate leaves the root: it is neither the root
\* nor below it, counted in whole path segments
EscapesRoot(root, cand) ==
    ~IsSegPrefix(CanonSegs(root), CanonSegs(root \o <<"/">> \o cand))

\* C3: validateTemplatePath never returns a path outside the template
\* root: a candidate that, joined to the root, escapes it (through ".."
\* segments, into a sibling whose name merely starts with the root's name
\* included) is rejected with null, and every non-null result is the root
\* or a descendant of it by whole path segments.
C3_NeverOutsideRoot ==
    vtCalled =>
        /\ (vtInput.t = "string" /\ (vtInput.s = <<>> \/ vtInput.s[1] # "/")
                /\ EscapesRoot(ORIG_ROOT, vtInput.s)) => vtResult = Null
        /\ vtResult # Null =>
              /\ vtResult.t = "string"
              /\ IsSegPrefix(CanonSegs(ORIG_ROOT), CanonSegs(vtResult.s))

\* the sibling-prefix case: "../aa" against the root "/a" was rejected
C3_Witness ==
    /\ vtCalled
    /\ ORIG_ROOT = <<"/", "a">>
    /\ vtInput = Str(<<".", ".", "/", "a", "a">>)
    /\ vtResult = Null

\* a normalized relative path that names something strictly below the
\* root: at least one segment, none of them "." or ".."
StrictlyInside(n) ==
    /\ Len(n) > 0
    /\ n[1] # "/"
    /\ LET segs == SelectSeq(Split(n), LAMBDA g : g # <<>>)
       IN  /\ segs # <<>>
           /\ \A k \in 1..Len(segs) : segs[k] # <<".">> /\ segs[k] # DotDot

\* C4: every candidate string that normalizes to a path strictly inside
\* the root (a file name holding two consecutive dots inside a longer
\* token included) is accepted, and the result is the root joined with the
\* normalized candidate.
C4_AcceptsInsideRoot ==
    (vtCalled /\ vtInput.t = "string" /\ StrictlyInside(pathNormalize(vtInput.s)))
        => vtResult = Str(pathJoin(ORIG_ROOT, pathNormalize(vtInput.s)))

\* C5: every absolute candidate, whatever follows its leading "/", and
\* every empty or non-string candidate is rejected with null.
C5_RejectsAbsoluteEmptyNonString ==
    (vtCalled /\ (\/ vtInput.t # "string"
                  \/ vtInput.s = <<>>
                  \/ vtInput.s[1] = "/"))
        => vtResult = Null

\* the absolute candidate "/a", free of "..", was rejected
C5_Witness ==
    /\ vtCalled
    /\ vtInput = Str(<<"/", "a">>)
    /\ vtResult = Null

----------------------------------------------------------------------------
(* buildFdf and the literal strings of the FDF document *)

BS == "\\"
LF == "LF"
CR == "CR"

\* String.prototype.replace(/c/g, with) for a one-character pattern
RECURSIVE ReplaceChar(_, _, _)
ReplaceChar(s, c, with) ==
    IF s = <<>> THEN <<>>
    ELSE (IF Head(s) = c THEN with ELSE <<Head(s)>>) \o ReplaceChar(Tail(s), c, with)

\* String.prototype.replace(/\r?\n/g, with)
RECURSIVE ReplaceNewline(_, _)
ReplaceNewline(s, with) ==
    IF s = <<>> THEN <<>>
    ELSE IF Len(s) >= 2 /\ s[1] = CR /\ s[2] = LF
         THEN with \o ReplaceNewline(SubSeq(s, 3, Len(s)), with)
    ELSE IF s[1] = LF THEN with \o ReplaceNewline(Tail(s), with)
    ELSE <<Head(s)>> \o ReplaceNewline(Tail(s), with)

\* (fieldsObj[key] ?? '').toString()
ValueString(v) == IF v.t \in {"null", "undefined"} THEN <<>> ELSE v.s

\* lines 110-113: the chain of four replacements
EscapeValue(v) ==
    ReplaceNewline(
        ReplaceChar(
            ReplaceChar(
                ReplaceChar(v, BS, <<BS, BS>>),
                "(", <<BS, "(">>),
            ")", <<BS, ")">>),
        <<BS, "r">>)

\* line 114: `<< /T (${key}) /V (${esc}) >>\n`
FieldLine(key, esc) ==
    <<"<", "<", " ", "/", "T", " ", "(">> \o key
        \o <<")", " ", "/", "V", " ", "(">> \o esc
        \o <<")", " ", ">", ">", LF>>

\* the body of the document: one line per key, in Object.keys order
RECURSIVE buildFdf(_)
buildFdf(fieldsObj) ==
    IF fieldsObj = <<>> THEN <<>>
    ELSE <<FieldLine(Head(fieldsObj).key, EscapeValue(ValueString(Head(fieldsObj).value)))>>
             \o buildFdf(Tail(fieldsObj))

----------------------------------------------------------------------------
(* The fill tool's reading of a PDF literal string (ISO 32000-1, 7.3.4.2): *)
(* a backslash escapes the next character, \r is CR, \n is LF, balanced    *)
(* unescaped parentheses belong to the string, and an unescaped end of     *)
(* line (CR, LF or CR LF) reads as LF.                                     *)

\* [val |-> the decoded characters, next |-> the index after the closing ")"]
\* of the literal string whose opening "(" is at index i - 1
RECURSIVE ReadLiteral(_, _, _, _)
ReadLiteral(s, i, depth, acc) ==
    IF i > Len(s) THEN [val |-> acc, next |-> i]
    ELSE IF s[i] = BS
    THEN IF i = Len(s) THEN [val |-> acc, next |-> i + 1]
         ELSE IF s[i + 1] = "r" THEN ReadLiteral(s, i + 2, depth, Append(acc, CR))
         ELSE IF s[i + 1] = "n" THEN ReadLiteral(s, i + 2, depth, Append(acc, LF))
         ELSE IF s[i + 1] = CR /\ i + 2 <= Len(s) /\ s[i + 2] = LF
              THEN ReadLiteral(s, i + 3, depth, acc)
         ELSE IF s[i + 1] \in {CR, LF} THEN ReadLiteral(s, i + 2, depth, acc)
         ELSE ReadLiteral(s, i + 2, depth, Append(acc, s[i + 1]))
    ELSE IF s[i] = "(" THEN ReadLiteral(s, i + 1, depth + 1, Append(acc, "("))
    ELSE IF s[i] = ")"
    THEN IF depth = 0 THEN [val |-> acc, next |-> i + 1]
         ELSE ReadLiteral(s, i + 1, depth - 1, Append(acc, ")"))
    ELSE IF s[i] = CR /\ i + 1 <= Len(s) /\ s[i + 1] = LF
         THEN ReadLiteral(s, i + 2, depth, Append(acc, LF))
    ELSE IF s[i] = CR THEN ReadLiteral(s, i + 1, depth, Append(acc, LF))
    ELSE ReadLiteral(s, i + 1, depth, Append(acc, s[i]))

\* the index of the first "(" of s at or after i (Len(s) + 1 when none)
RECURSIVE FindOpen(_, _)
FindOpen(s, i) ==
    IF i > Len(s) THEN i
    ELSE IF s[i] = "(" THEN i
    ELSE FindOpen(s, i + 1)

\* the /T and /V strings of one field line
ReadFieldLine(line) ==
    LET t == ReadLiteral(line, FindOpen(line, 1) + 1, 0, <<>>)
        v == ReadLiteral(line, FindOpen(line, t.next) + 1, 0, <<>>)
    IN  [key |-> t.val, value |-> v.val]

----------------------------------------------------------------------------
(* SpecFdf: buildFdf applied to every bounded field map, and the fill     *)
(* tool reading the document back                                          *)

FdfAlphabet == {"a", BS, "(", ")", LF, CR}

FdfKeys == <<<<"k">>, <<"j">>>>

FdfValues(len) == {Str(s) : s \in SeqsUpTo(FdfAlphabet, len)} \cup {Null}

\* field maps of up to m keys (keys are distinct in an object) with values
\* of up to len characters
FieldMaps(m, len) ==
    UNION {
        {[k \in 1..n |-> [key |-> FdfKeys[k], value |-> vals[k]]] :
            vals \in [1..n -> FdfValues(len)]}
        : n \in 0..(IF m < Len(FdfKeys) THEN m ELSE Len(FdfKeys))}

\* the template root the server runs with
ServerRoot == <<"/", "a">>

PathIdle ==
    /\ ORIG_ROOT = ServerRoot
    /\ vtInput = Null
    /\ vtResult = Null
    /\ vtCalled = FALSE

InitFdf ==
    /\ PathIdle
    /\ SrvIdle
    /\ unlinkCanFail = TRUE
    /\ fdfFields \in FieldMaps(MaxFields, MaxValLen)
    /\ fdfLines = <<>>
    /\ fdfDecoded = <<>>
    /\ fdfStage = "input"

BuildFdfCall ==
    /\ fdfStage = "input"
    /\ fdfLines' = buildFdf(fdfFields)
    /\ fdfStage' = "built"
    /\ UNCHANGED <<ORIG_ROOT, pathVars, fdfFields, fdfDecoded, srvVars>>

ToolReadsFdf ==
    /\ fdfStage = "built"
    /\ fdfDecoded' = [k \in 1..Len(fdfLines) |-> ReadFieldLine(fdfLines[k])]
    /\ fdfStage' = "decoded"
    /\ UNCHANGED <<ORIG_ROOT, pathVars, fdfFields, fdfLines, srvVars>>

NextFdf == BuildFdfCall \/ ToolReadsFdf

SpecFdf == InitFdf /\ [][NextFdf]_vars

\* C10: for every field map, decoding the values buildFdf wrote into the
\* FDF literal strings yields the submitted values unchanged: parentheses,
\* backslashes and newlines (LF and CR LF) are preserved exactly.
C10_EscapingRoundTrip ==
    fdfStage = "decoded" =>
        /\ Len(fdfDecoded) = Len(fdfFields)
        /\ \A k \in 1..Len(fdfFields) :
              fdfDecoded[k].value = ValueString(fdfFields[k].value)

----------------------------------------------------------------------------
(* The request handlers, fillPdf, extractFields and the pdftk subprocess   *)

\* the files under the template root (the root is /a in Init)
TemplateFiles == {<<"/", "a", "/", "a">>}

\* fs.existsSync on a template path
TemplateExists(p) == pathResolve(p) \in TemplateFiles

\* the template parameters requests carry
\* the template parameters requests carry: none, a traversal whose joined
\* path exists, an existing template, a missing one
ServerTemplates ==
    {Undefined, Str(<<".", ".", "/", "a", "/", "a">>),
     Str(<<"a">>), Str(<<"a", "/", "a">>)}

Message(m) == [prefix |-> m, detail |-> ""]
\* an error of the fs module or of spawn, named by its code
FsError(code) == [prefix |-> "", detail |-> code]
\* line 167
SpawnError(msg) == [prefix |-> "pdftk spawn failed: ", detail |-> msg]

ExitError_nocode(code) == [prefix |-> "pdftk fill_form failed", detail |-> ""]

\* line 173
ExitError(code) ==
    [prefix |-> "pdftk fill_form failed with exit code ", detail |-> ToString(code)]
\* line 86
ExtractExitError(code) ==
    [prefix |-> "pdftk exited with code ", detail |-> ToString(code)]

\* the handlers before the existence check was moved behind the validation:
\* the joined path is looked up first
RouteChecks_existsFirst(root, tpl) ==
    IF Falsy(tpl)
    THEN [status |-> 400, error |-> Message("template query parameter is required"),
          io |-> <<>>, p |-> Null]
    ELSE LET p == validateTemplatePath(root, tpl)
             joined == IF tpl.t = "string" THEN pathJoin(root, tpl.s) ELSE root
         IN  IF ~TemplateExists(joined)
             THEN [status |-> 404, error |-> Message("template not found"),
                   io |-> <<"existsSync">>, p |-> Null]
             ELSE IF p = Null
             THEN [status |-> 400, error |-> Message("invalid template path"),
                   io |-> <<"existsSync">>, p |-> Null]
             ELSE [status |-> 0, error |-> NoError, io |-> <<"existsSync">>, p |-> p]

\* the handlers without validateTemplatePath: the joined path is used as is
RouteChecks_unvalidated(root, tpl) ==
    IF Falsy(tpl)
    THEN [status |-> 400, error |-> Message("template query parameter is required"),
          io |-> <<>>, p |-> Null]
    ELSE LET p == Str(IF tpl.t = "string" THEN pathJoin(root, tpl.s) ELSE root)
         IN  IF ~TemplateExists(p.s)
             THEN [status |-> 404, error |-> Message("template not found"),
                   io |-> <<"existsSync">>, p |-> p]
             ELSE [status |-> 0, error |-> NoError, io |-> <<"existsSync">>, p |-> p]

\* lines 193-205 and 242-254: the checks both handlers start with. status 0
\* means the handler goes on with the path p.
RouteChecks(root, tpl) ==
    IF Falsy(tpl)
    THEN [status |-> 400, error |-> Message("template query parameter is required"),
          io |-> <<>>, p |-> Null]
    ELSE LET p == validateTemplatePath(root, tpl)
         IN  IF p = Null
             THEN [status |-> 400, error |-> Message("invalid template path"),
                   io |-> <<>>, p |-> Null]
             ELSE IF ~TemplateExists(p.s)
             THEN [status |-> 404, error |-> Message("template not found"),
                   io |-> <<"existsSync">>, p |-> p]
             ELSE [status |-> 0, error |-> NoError, io |-> <<"existsSync">>, p |-> p]

\* one fs.unlinkSync guarded by fs.existsSync: the states it can leave,
\* with whether it threw
UnlinkIfExists(t, f, canFail) ==
    IF t[f] = 0 THEN {[tmp |-> t, threw |-> FALSE]}
    ELSE {[tmp |-> [t EXCEPT ![f] = 0], threw |-> FALSE]}
             \cup (IF canFail THEN {[tmp |-> t, threw |-> TRUE]} ELSE {})

\* lines 142-153: cleanup(). A throw of the first unlinkSync skips the
\* second; the catch swallows it.
CleanupOutcomes(t, f, o, canFail) ==
    UNION {IF a.threw THEN {a} ELSE UnlinkIfExists(a.tmp, o, canFail)
              : a \in UnlinkIfExists(t, f, canFail)}

AfterCleanup_masked(primary, threw) ==
    IF threw THEN Rejected(FsError("EPERM")) ELSE primary

\* lines 150-152: cleanup() returns normally whether or not an unlink
\* threw, so what is settled after it is the primary outcome
AfterCleanup(primary, threw) == primary

SettleOnce_overwrite(old, new) == new

\* a promise is settled once: later resolve/reject calls change nothing
SettleOnce(old, new) == IF old.kind = "pending" THEN new ELSE old

\* lines 255-262: what /submit answers once the awaited fillPdf settles
SubmitResponse(o) ==
    IF o.kind = "resolved"
    THEN [status |-> 200, error |-> NoError, buf |-> o.buf]
    ELSE [status |-> 500, error |-> o.error, buf |-> 0]

\* lines 206-210: what /fields answers once the awaited extractFields settles
FieldsResponse(o) ==
    IF o.kind = "resolved"
    THEN [status |-> 200, error |-> NoError, buf |-> 0]
    ELSE [status |-> 500, error |-> o.error, buf |-> 0]

CloseRejects_never(code) == FALSE

\* line 171: code !== 0
CloseRejects(code) == code # 0

\* request i arrives: requests are numbered in their order of arrival
Arrives(i) ==
    /\ serverUp
    /\ pc[i] = "idle"
    /\ IF i = 1 THEN TRUE ELSE pc[i - 1] # "idle"

\* a handler that answers from its first checks (400 or 404)
RespondEarly(i, chk) ==
    /\ resp' = [resp EXCEPT ![i] = [status |-> chk.status, error |-> chk.error, buf |-> 0]]
    /\ io' = [io EXCEPT ![i] = chk.io]
    /\ pc' = [pc EXCEPT ![i] = "responded"]
    /\ UNCHANGED <<serverUp, unlinkCanFail, clock, tmp, fdfPath, outPath, proc,
                   launchFailed, exitCode, fdfSeen, outcome, writeFailed, readRes,
                   cleanups, cleanupThrew>>

\* GET /fields, lines 191-211, up to the await of extractFields (spawn, line 79)
GetFields(i) ==
    /\ Arrives(i)
    /\ \E tpl \in ServerTemplates :
          LET chk == RouteChecks(ORIG_ROOT, tpl)
          IN  /\ route' = [route EXCEPT ![i] = "fields"]
              /\ reqTemplate' = [reqTemplate EXCEPT ![i] = tpl]
              /\ IF chk.status # 0 THEN RespondEarly(i, chk)
                 ELSE /\ io' = [io EXCEPT ![i] = chk.io \o <<"spawn">>]
                      /\ proc' = [proc EXCEPT ![i] = "spawned"]
                      /\ pc' = [pc EXCEPT ![i] = "awaitExtract"]
                      /\ UNCHANGED <<serverUp, unlinkCanFail, clock, tmp, resp, fdfPath,
                                     outPath, launchFailed, exitCode, fdfSeen, outcome,
                                     writeFailed, readRes, cleanups, cleanupThrew>>
    /\ UNCHANGED <<ORIG_ROOT, pathVars, fdfVars, docId, redirect>>

\* POST /submit, lines 240-263, with the synchronous part of fillPdf
\* (lines 135-163): the two Date.now() calls (the clock may advance between
\* them), writeFileSync, and either the spawn or, when the write throws,
\* cleanup, the rejected promise and the 500 answer
PostSubmit(i) ==
    /\ Arrives(i)
    /\ \E tpl \in ServerTemplates :
          LET chk == RouteChecks(ORIG_ROOT, tpl)
          IN  /\ route' = [route EXCEPT ![i] = "submit"]
              /\ reqTemplate' = [reqTemplate EXCEPT ![i] = tpl]
              /\ IF chk.status # 0 THEN RespondEarly(i, chk)
                 ELSE \E d \in {0, 1}, wrote \in BOOLEAN, threw \in BOOLEAN :
                      LET f == DataPath(clock)
                          o == OutFilePath(clock + d)
                          written == IF wrote THEN [tmp EXCEPT ![f] = i] ELSE tmp
                      IN  /\ clock + d <= MaxClock
                          /\ wrote \/ threw
                          /\ clock' = clock + d
                          /\ fdfPath' = [fdfPath EXCEPT ![i] = f]
                          /\ outPath' = [outPath EXCEPT ![i] = o]
                          /\ writeFailed' = [writeFailed EXCEPT ![i] = threw]
                          /\ IF threw
                             THEN \E c \in CleanupOutcomes(written, f, o, unlinkCanFail) :
                                  LET res == AfterCleanup(Rejected(FsError("EACCES")), c.threw)
                                  IN  /\ tmp' = c.tmp
                                      /\ cleanups' = [cleanups EXCEPT ![i] = 1]
                                      /\ cleanupThrew' = [cleanupThrew EXCEPT ![i] = c.threw]
                                      /\ outcome' = [outcome EXCEPT ![i] = res]
                                      /\ resp' = [resp EXCEPT ![i] = SubmitResponse(res)]
                                      /\ io' = [io EXCEPT ![i] = chk.io \o <<"writeFileSync">>]
                                      /\ pc' = [pc EXCEPT ![i] = "responded"]
                                      /\ UNCHANGED proc
                             ELSE /\ tmp' = written
                                  /\ io' = [io EXCEPT ![i] = chk.io \o <<"writeFileSync", "spawn">>]
                                  /\ proc' = [proc EXCEPT ![i] = "spawned"]
                                  /\ pc' = [pc EXCEPT ![i] = "awaitFill"]
                                  /\ UNCHANGED <<resp, outcome, cleanups, cleanupThrew>>
                          /\ UNCHANGED <<serverUp, unlinkCanFail, launchFailed, exitCode,
                                         fdfSeen, readRes>>
    /\ UNCHANGED <<ORIG_ROOT, pathVars, fdfVars, docId, redirect>>

\* pdftk could not be started for extractFields: the ChildProcess emits
\* 'error', extractFields (lines 79-97) registered no listener for it, the
\* emit throws and the uncaught exception ends the process
ExtractSpawnError(i) ==
    /\ serverUp
    /\ route[i] = "fields"
    /\ proc[i] = "spawned"
    /\ proc' = [proc EXCEPT ![i] = "failed"]
    /\ launchFailed' = [launchFailed EXCEPT ![i] = TRUE]
    /\ serverUp' = FALSE
    /\ UNCHANGED <<ORIG_ROOT, pathVars, fdfVars, docId, redirect, unlinkCanFail, clock, tmp, pc, route,
                   reqTemplate, resp, io, fdfPath, outPath, exitCode, fdfSeen, outcome,
                   writeFailed, readRes, cleanups, cleanupThrew>>

\* the settling of fillPdf's promise after a cleanup() call, and the answer
\* of the awaiting /submit handler when this call settled it
FillSettles(i, primary, nextPc) ==
    \E c \in CleanupOutcomes(tmp, fdfPath[i], outPath[i], unlinkCanFail) :
        LET res == SettleOnce(outcome[i], AfterCleanup(primary, c.threw))
        IN  /\ tmp' = c.tmp
            /\ cleanups' = [cleanups EXCEPT ![i] = @ + 1]
            /\ cleanupThrew' = [cleanupThrew EXCEPT ![i] = @ \/ c.threw]
            /\ outcome' = [outcome EXCEPT ![i] = res]
            /\ resp' = [resp EXCEPT ![i] =
                          IF outcome[i].kind = "pending" THEN SubmitResponse(res) ELSE @]
            /\ pc' = [pc EXCEPT ![i] = nextPc]

\* lines 165-168: pdftk could not be started for fillPdf, 'error' listener
OnFillError(i) ==
    /\ serverUp
    /\ route[i] = "submit"
    /\ proc[i] = "spawned"
    /\ proc' = [proc EXCEPT ![i] = "failed"]
    /\ launchFailed' = [launchFailed EXCEPT ![i] = TRUE]
    /\ FillSettles(i, Rejected(SpawnError("spawn pdftk ENOENT")), "responded")
    /\ UNCHANGED <<ORIG_ROOT, pathVars, fdfVars, docId, redirect, serverUp, unlinkCanFail, clock, route,
                   reqTemplate, io, fdfPath, outPath, exitCode, fdfSeen, writeFailed,
                   readRes>>

\* the status the 'close' event carries: the negative errno after a failed
\* launch, the exit status otherwise
CloseCode(i) == IF proc[i] = "failed" THEN -2 ELSE exitCode[i]

\* lines 170-181: 'close' listener of fillPdf
OnFillClose(i) ==
    /\ serverUp
    /\ route[i] = "submit"
    /\ proc[i] \in {"failed", "exited"}
    /\ proc' = [proc EXCEPT ![i] = "closed"]
    /\ IF CloseRejects(CloseCode(i))
       THEN /\ FillSettles(i, Rejected(ExitError(CloseCode(i))), "responded")
            /\ UNCHANGED io
       ELSE /\ pc' = [pc EXCEPT ![i] = "reading"]
            /\ io' = [io EXCEPT ![i] = Append(@, "readFile")]
            /\ UNCHANGED <<tmp, cleanups, cleanupThrew, outcome, resp>>
    /\ UNCHANGED <<ORIG_ROOT, pathVars, fdfVars, docId, redirect, serverUp, unlinkCanFail, clock, route,
                   reqTemplate, fdfPath, outPath, launchFailed, exitCode, fdfSeen,
                   writeFailed, readRes>>

\* what fs.readFile can call back with for the output path
ReadResults(t, o) ==
    IF t[o] = 0 THEN {[done |-> TRUE, error |-> FsError("ENOENT"), buf |-> 0]}
    ELSE {[done |-> TRUE, error |-> NoError, buf |-> t[o]],
          [done |-> TRUE, error |-> FsError("EIO"), buf |-> 0]}

\* lines 176-180: callback of fs.readFile
OnReadFile(i) ==
    /\ serverUp
    /\ pc[i] = "reading"
    /\ \E r \in ReadResults(tmp, outPath[i]) :
          /\ readRes' = [readRes EXCEPT ![i] = r]
          /\ FillSettles(i, IF r.error # NoError THEN Rejected(r.error) ELSE Resolved(r.buf),
                         "responded")
    /\ UNCHANGED <<ORIG_ROOT, pathVars, fdfVars, docId, redirect, serverUp, unlinkCanFail, clock, route,
                   reqTemplate, io, fdfPath, outPath, proc, launchFailed, exitCode,
                   fdfSeen, writeFailed>>

\* lines 84-96: 'close' listener of extractFields, and the answer of /fields
OnExtractClose(i) ==
    /\ serverUp
    /\ route[i] = "fields"
    /\ proc[i] = "exited"
    /\ proc' = [proc EXCEPT ![i] = "closed"]
    /\ LET res == IF exitCode[i] # 0 THEN Rejected(ExtractExitError(exitCode[i]))
                  ELSE Resolved(0)
       IN  /\ outcome' = [outcome EXCEPT ![i] = res]
           /\ resp' = [resp EXCEPT ![i] = FieldsResponse(res)]
    /\ pc' = [pc EXCEPT ![i] = "responded"]
    /\ UNCHANGED <<ORIG_ROOT, pathVars, fdfVars, docId, redirect, serverUp, unlinkCanFail, clock, tmp,
                   route, reqTemplate, io, fdfPath, outPath, launchFailed, exitCode,
                   fdfSeen, writeFailed, readRes, cleanups, cleanupThrew>>

ExitCodes == {0, 1}

\* the pdftk process starts and, for fill_form, opens the FDF file it was given
PdftkStart(i) ==
    /\ proc[i] = "spawned"
    /\ proc' = [proc EXCEPT ![i] = "running"]
    /\ fdfSeen' = [fdfSeen EXCEPT ![i] = IF route[i] = "submit" THEN tmp[fdfPath[i]] ELSE 0]
    /\ UNCHANGED <<ORIG_ROOT, pathVars, fdfVars, docId, redirect, serverUp, unlinkCanFail, clock, tmp, pc,
                   route, reqTemplate, resp, io, fdfPath, outPath, launchFailed, exitCode,
                   outcome, writeFailed, readRes, cleanups, cleanupThrew>>

\* the pdftk process exits. fill_form exits 0 only when it had an FDF to
\* read, and has then written the output file; a failing run may leave a
\* partial output file behind.
PdftkExit(i) ==
    /\ proc[i] = "running"
    /\ \E code \in ExitCodes, wroteOut \in BOOLEAN :
          /\ route[i] = "fields" => ~wroteOut
          /\ (route[i] = "submit" /\ code = 0) => (fdfSeen[i] # 0 /\ wroteOut)
          /\ exitCode' = [exitCode EXCEPT ![i] = code]
          /\ tmp' = IF wroteOut THEN [tmp EXCEPT ![outPath[i]] = i] ELSE tmp
    /\ proc' = [proc EXCEPT ![i] = "exited"]
    /\ UNCHANGED <<ORIG_ROOT, pathVars, fdfVars, docId, redirect, serverUp, unlinkCanFail, clock, pc,
                   route, reqTemplate, resp, io, fdfPath, outPath, launchFailed, fdfSeen,
                   outcome, writeFailed, readRes, cleanups, cleanupThrew>>

\* a millisecond passes
Tick ==
    /\ clock < MaxClock
    /\ clock' = clock + 1
    /\ UNCHANGED <<ORIG_ROOT, pathVars, fdfVars, docId, redirect, serverUp, unlinkCanFail, tmp, pc, route,
                   reqTemplate, resp, io, fdfPath, outPath, proc, launchFailed, exitCode,
                   fdfSeen, outcome, writeFailed, readRes, cleanups, cleanupThrew>>

----------------------------------------------------------------------------
(* GET /start and the table of document IDs *)

\* config/originals.json as loaded at lines 23-31: the table's own keys and
\* their template file names
Mappings ==
    [id \in {<<"1", "9">>, <<"7">>} |->
        IF id = <<"7">> THEN Str(<<"a", " ", "a">>) ELSE Str(<<"a">>)]

\* property names every object literal inherits from Object.prototype
InheritedNames == {<<"c", "o", "n", "s", "t", "r", "u", "c", "t", "o", "r">>,
                   <<"t", "o", "S", "t", "r", "i", "n", "g">>}

\* a function object, as mappings.constructor is; s is its source text
FunctionValue == [t |-> "function", s |-> <<"f", "(", ")">>]

\* obj[key] on a plain object: the own property, else the inherited one,
\* else undefined
PropertyLookup(own, key) ==
    IF key \in DOMAIN own THEN own[key]
    ELSE IF key \in InheritedNames THEN FunctionValue
    ELSE Undefined

\* encodeURIComponent on the characters of the model: letters, digits and
\* "(" ")" "." stay, a space becomes %20, "/" becomes %2F
RECURSIVE encodeURIComponent(_)
encodeURIComponent(str) ==
    IF str = <<>> THEN <<>>
    ELSE (IF Head(str) = " " THEN <<"%", "2", "0">>
          ELSE IF Head(str) = "/" THEN <<"%", "2", "F">>
          ELSE <<Head(str)>>) \o encodeURIComponent(Tail(str))

TemplateQuery == <<"/", "?", "t", "e", "m", "p", "l", "a", "t", "e", "=">>

\* lines 219-224: where /start redirects to
StartLocation(own, id) ==
    IF ~Falsy(id) /\ ~Falsy(PropertyLookup(own, id.s))
    THEN TemplateQuery \o encodeURIComponent(PropertyLookup(own, id.s).s)
    ELSE <<"/">>

\* the doc_id parameters requests carry: none, a key of the table, an
\* unknown ID, an inherited property name
DocIds ==
    {Undefined, Str(<<"7">>), Str(<<"4">>),
     Str(<<"t", "o", "S", "t", "r", "i", "n", "g">>)}

\* GET /start, lines 218-225
GetStart(i) ==
    /\ Arrives(i)
    /\ \E id \in DocIds :
          /\ docId' = [docId EXCEPT ![i] = id]
          /\ redirect' = [redirect EXCEPT ![i] = StartLocation(Mappings, id)]
    /\ route' = [route EXCEPT ![i] = "start"]
    /\ resp' = [resp EXCEPT ![i] = [status |-> 302, error |-> NoError, buf |-> 0]]
    /\ pc' = [pc EXCEPT ![i] = "responded"]
    /\ UNCHANGED <<ORIG_ROOT, pathVars, fdfVars, serverUp, unlinkCanFail, clock, tmp,
                   reqTemplate, io, fdfPath, outPath, proc, launchFailed, exitCode,
                   fdfSeen, outcome, writeFailed, readRes, cleanups, cleanupThrew>>

\* the server after start-up, in an environment where removing a file may
\* fail (EPERM, EBUSY, ...)
Init ==
    /\ PathIdle
    /\ FdfIdle
    /\ SrvIdle
    /\ unlinkCanFail = TRUE

\* the same server in an environment where removing a file never fails
InitUnlinkOk ==
    /\ PathIdle
    /\ FdfIdle
    /\ SrvIdle
    /\ unlinkCanFail = FALSE

Next ==
    \/ \E i \in Req : GetFields(i)
    \/ \E i \in Req : PostSubmit(i)
    \/ \E i \in Req : GetStart(i)
    \/ \E i \in Req : ExtractSpawnError(i)
    \/ \E i \in Req : OnExtractClose(i)
    \/ \E i \in Req : OnFillError(i)
    \/ \E i \in Req : OnFillClose(i)
    \/ \E i \in Req : OnReadFile(i)
    \/ \E i \in Req : PdftkStart(i)
    \/ \E i \in Req : PdftkExit(i)
    \/ Tick

Spec == Init /\ [][Next]_vars

\* the behaviours of Spec in which no unlinkSync throws
SpecUnlinkOk == InitUnlinkOk /\ [][Next]_vars

----------------------------------------------------------------------------
(* Properties of the server (Spec, SpecUnlinkOk) *)

\* fillPdf was called for request i
Invoked(i) == fdfPath[i] # NoPath

\* C1: once the outcome of a fillPdf invocation has been delivered to its
\* caller, whatever the outcome, neither the invocation's FDF file nor its
\* output file exists in the temp directory, then or at any later time.
C1_CleanupTotality ==
    \A i \in Req :
        (Invoked(i) /\ resp[i].status # 0)
            => (tmp[fdfPath[i]] = 0 /\ tmp[outPath[i]] = 0)

\* C2: two fillPdf invocations whose lifetimes overlap use distinct FDF
\* paths and distinct output paths.
C2_DistinctTempPaths ==
    \A i, j \in Req :
        (i # j /\ Invoked(i) /\ Invoked(j)
            /\ outcome[i].kind = "pending" /\ outcome[j].kind = "pending")
            => (fdfPath[i] # fdfPath[j] /\ outPath[i] # outPath[j])

\* the template parameters that are missing or fail validateTemplatePath
RejectedTemplates ==
    {t \in ServerTemplates : Falsy(t) \/ validateTemplatePath(ServerRoot, t) = Null}

\* C6: in /fields and /submit, a request whose template parameter is
\* missing or fails validateTemplatePath is answered 400 before any
\* existence check, temp-file write or pdftk spawn is made for it.
C6_ValidationBeforeIo ==
    \A i \in Req :
        /\ (route[i] \in {"fields", "submit"} /\ reqTemplate[i] \in RejectedTemplates)
              => (ORIG_ROOT = ServerRoot /\ resp[i].status = 400 /\ io[i] = <<>>)
        /\ resp[i].status = 400
              => (io[i] = <<>> /\ proc[i] = "none" /\ ~Invoked(i))

\* a traversal candidate whose joined path names an existing file was
\* answered 400
C6_Witness ==
    \E i \in Req :
        /\ reqTemplate[i] = Str(<<".", ".", "/", "a", "/", "a">>)
        /\ resp[i].status = 400

SpawnPrefix == "pdftk spawn failed: "
ExitPrefix == "pdftk fill_form failed with exit code "

\* C7: fillPdf's outcome follows the subprocess outcome class: a failed
\* launch rejects with the launch error; an exit with status c # 0 rejects
\* with the fill error carrying c; the output file is read only after an
\* exit with status 0; and the launch, exit and read errors differ.
C7_OutcomeClasses ==
    \A i \in Req : route[i] = "submit" =>
        /\ launchFailed[i] =>
              (outcome[i].kind = "rejected" /\ outcome[i].error.prefix = SpawnPrefix)
        /\ (proc[i] = "closed" /\ ~launchFailed[i] /\ exitCode[i] # 0) =>
              /\ outcome[i].kind = "rejected"
              /\ outcome[i].error.prefix = ExitPrefix
              /\ outcome[i].error.detail = ToString(exitCode[i])
        /\ (pc[i] = "reading" \/ readRes[i].done) =>
              (proc[i] = "closed" /\ ~launchFailed[i] /\ exitCode[i] = 0)
        /\ (readRes[i].done /\ readRes[i].error # NoError) =>
              /\ outcome[i] = Rejected(readRes[i].error)
              /\ outcome[i].error.prefix \notin {SpawnPrefix, ExitPrefix}
        /\ outcome[i].kind = "rejected" =>
              /\ outcome[i].error.prefix = SpawnPrefix <=> launchFailed[i]
              /\ outcome[i].error.prefix = ExitPrefix <=>
                    (proc[i] = "closed" /\ ~launchFailed[i] /\ exitCode[i] # 0)

\* pdftk exited with status 1 and the call failed with the error carrying 1
C7_Witness ==
    \E i \in Req :
        /\ route[i] = "submit"
        /\ proc[i] = "closed"
        /\ exitCode[i] = 1
        /\ outcome[i] = Rejected([prefix |-> ExitPrefix, detail |-> "1"])

\* C8: when pdftk cannot be started for extractFields, the requester of
\* GET /fields gets a 500 answer and the server keeps running.
C8_ExtractLaunchFailureAnswered ==
    \A i \in Req :
        (route[i] = "fields" /\ launchFailed[i])
            => (resp[i].status = 500 /\ serverUp)

\* the outcome the primary events of invocation i call for: the write
\* error, the launch error, the exit error, the read error or the bytes read
PrimaryOutcome(i) ==
    IF writeFailed[i] THEN Rejected([prefix |-> "", detail |-> "EACCES"])
    ELSE IF launchFailed[i]
    THEN Rejected([prefix |-> SpawnPrefix, detail |-> "spawn pdftk ENOENT"])
    ELSE IF exitCode[i] # 0
    THEN Rejected([prefix |-> ExitPrefix, detail |-> ToString(exitCode[i])])
    ELSE IF readRes[i].error # NoError THEN Rejected(readRes[i].error)
    ELSE Resolved(readRes[i].buf)

\* C9: a failing unlink in cleanup() never changes fillPdf's outcome: in
\* every outcome class what is delivered is what the primary events call
\* for, whether or not an unlinkSync threw.
C9_CleanupNeverMasks ==
    \A i \in Req :
        (Invoked(i) /\ outcome[i].kind # "pending") =>
            /\ outcome[i] = PrimaryOutcome(i)
            /\ resp[i] = SubmitResponse(PrimaryOutcome(i))

\* an unlinkSync threw in the cleanup of a fill that read its output: the
\* bytes were delivered all the same
C9_Witness ==
    \E i \in Req :
        /\ cleanupThrew[i]
        /\ cleanups[i] = 1
        /\ outcome[i].kind = "resolved"
        /\ resp[i].status = 200

\* C11: GET /start redirects to /?template=<filename> exactly for the
\* document IDs that are keys of the loaded table, and to / for every other
\* ID: an absent one, an unknown one, and one that names a property every
\* object inherits (constructor, toString).
C11_StartRedirect ==
    \A i \in Req : route[i] = "start" =>
        redirect[i] =
            IF docId[i].t = "string" /\ docId[i].s \in DOMAIN Mappings
            THEN TemplateQuery \o encodeURIComponent(Mappings[docId[i].s].s)
            ELSE <<"/">>

\* C12: POST /submit sends PDF bytes only when the fill succeeded (pdftk
\* exited 0 and the output was read), and the bytes are those this
\* invocation's pdftk run wrote to its output file; every failure is
\* answered with one error (status and message) and no PDF bytes.
C12_BytesOnlyOnSuccess ==
    \A i \in Req : (route[i] = "submit" /\ resp[i].status # 0) =>
        /\ resp[i].buf # 0 =>
              /\ resp[i].status = 200
              /\ proc[i] = "closed" /\ ~launchFailed[i] /\ exitCode[i] = 0
              /\ readRes[i].done /\ readRes[i].error = NoError
              /\ resp[i].buf = i
        /\ resp[i].status = 200 => resp[i].buf = i
        /\ resp[i].status # 200 =>
              /\ resp[i].status \in {400, 404, 500}
              /\ resp[i].error # NoError
              /\ resp[i].buf = 0

\* the template parameters that pass validateTemplatePath
AcceptedTemplates == ServerTemplates \ RejectedTemplates

\* fs.existsSync of the validated path of an accepted template parameter
ExistingTemplates ==
    {t \in AcceptedTemplates :
        TemplateExists(validateTemplatePath(ServerRoot, t).s)}

\* an external-tool or I/O step of request i failed
ToolOrIoFailed(i) ==
    \/ writeFailed[i]
    \/ launchFailed[i]
    \/ proc[i] = "closed" /\ exitCode[i] # 0
    \/ readRes[i].done /\ readRes[i].error # NoError

C14_OneOutcome ==
    [][\A i \in Req :
          /\ outcome[i].kind # "pending" =>
                (outcome'[i] = outcome[i] /\ resp'[i] = resp[i])
          /\ (/\ route'[i] = "submit" /\ proc'[i] = "closed"
              /\ (launchFailed'[i] \/ exitCode'[i] # 0 \/ readRes'[i].done)) =>
                outcome'[i].kind # "pending"
          /\ (route[i] = "submit" /\ proc[i] = "failed" /\ proc'[i] = "closed") =>
                /\ outcome'[i] = outcome[i]
                /\ resp'[i] = resp[i]
                /\ cleanups'[i] = cleanups[i] + 1
                /\ tmp[fdfPath[i]] = 0 => tmp'[fdfPath[i]] = 0
                /\ tmp[outPath[i]] = 0 => tmp'[outPath[i]] = 0
                /\ serverUp']_vars

\* the 'close' event after a failed launch was handled: cleanup() ran a
\* second time and the launch failure is still the outcome
C14_Witness ==
    \E i \in Req :
        /\ launchFailed[i]
        /\ proc[i] = "closed"
        /\ cleanups[i] = 2
        /\ outcome[i].error.prefix = SpawnPrefix
        /\ resp[i].status = 500

====
